---- MODULE Spec2Model ----
(***************************************************************************)
(* liblog: asynchronous JSON logger.  Producers call Debug/Info/Warning/   *)
(* Error (Logger.log), which filters on Logger.Level, takes a LogMsg from  *)
(* msgPool and does a non-blocking send on the buffered channel            *)
(* logger.output.  One worker goroutine ranges over the channel, renders   *)
(* each message (writeMessage), writes it to stdout and to the registered  *)
(* writers, clears msg.values and puts the message back in msgPool.        *)
(* Stop closes the channel; StopSync closes it and waits for the worker.   *)
(* The singleton wrappers keep one *Logger in the global singleLogger.     *)
(* The revision of the library that splits long messages (printMessage,    *)
(* logger.msgLen) is modelled next to the escape loop of writeMessage.     *)
(***************************************************************************)
EXTENDS Integers, Sequences, FiniteSets

\* ---- bounds of the model ----
NProducers == 2      \* goroutines that emit
MaxCalls == 2        \* emit calls in one behaviour
QueueCap == 1        \* capacity of logger.output (the code uses 1024)
MaxWriters == 2      \* AddWriter calls in one behaviour
MaxLevelSets == 1    \* assignments to logger.Level in one behaviour
NStoppers == 2       \* goroutines that call Stop or StopSync
NInitCallers == 2    \* goroutines that use the singleton functions
MaxInits == 2        \* Init calls made through InitSingleStr in one behaviour
MaxTextLen == 4      \* bytes in a message text given to printMessage
MaxEnvLen == 2       \* largest LOG_MSG_LEN set in the environment
MaxRunes == 3        \* characters in a formatted message given to the escape loop

\* ---- program constants ----
DebugLevel == 0
InfoLevel == 1
WarningLevel == 2
ErrorLevel == 3
MaxMsgLength == 8000
Newline == 10
CarriageReturn == 13
Tab == 9
Quote == 34
Backslash == 92
LetterN == 110
LetterR == 114
LetterT == 116

Levels == {DebugLevel, InfoLevel, WarningLevel, ErrorLevel}
\* the levels the modelled callers emit at: one below and one above the default
EmitLevels == {DebugLevel, WarningLevel}
Producers == 1..NProducers
Stoppers == 1..NStoppers
Calls == 1..MaxCalls
Msgs == 1..MaxCalls
InitCallers == 1..NInitCallers
Handles == 1..MaxInits
Modules == {"a", "b"}
Stdout == 0
NilValues == 0
NoPanic == "none"
SendOnClosed == "send on closed channel"
CloseOfClosed == "close of closed channel"
MemoryFault == "invalid memory address"

VARIABLES
  Level,        \* logger.Level
  output,       \* buffer of the channel logger.output: sequence of *LogMsg
  cap,          \* capacity of logger.output
  closed,       \* logger.output has been closed
  writers,      \* logger.writers
  broken,       \* the registered writers whose Write returns an error
  msgPool,      \* the *LogMsg resting in logger.msgPool
  allocated,    \* number of LogMsg made by msgPool.New
  rec,          \* fields of each LogMsg: Level, format, values
  calls,        \* number of emit calls started
  ppc,          \* per producer: position inside Logger.log
  pmsg,         \* per producer: the msg local of Logger.log (0: none)
  pcall,        \* per producer: the call in progress (0: none)
  wpc,          \* position of the worker goroutine
  wmsg,         \* the msg local of Logger.worker (0: none)
  wsnap,        \* the slice the range loop of writeMessage iterates
  wi,           \* index of the range loop of writeMessage
  wlog,         \* every Write issued, in order: dest, call, ok; regs: the number of
                \* writers registered at a write to stdout
  notices,      \* lines printed by log.Println on the standard logger
  outcome,      \* per call: what Logger.log did with it
  clevel,       \* per call: the level argument
  cprod,        \* per call: the calling producer
  cframe,       \* per call: what runtime.Caller(2) returned: file, line, ok
  sent,         \* the calls whose record was put in the queue, in order
  deq,          \* calls in the order the worker received them
  handled,      \* calls whose message the worker has put back
  startedAt,    \* number of calls that had returned when the worker first ran
  levelSets,    \* number of assignments to logger.Level so far
  spc,          \* per stopper: position inside Stop / StopSync
  senq,         \* per stopper: calls enqueued when it called StopSync
  panic,        \* the unrecovered panic that ended the process, if any
  singleLogger, \* the global singleLogger (0: nil)
  loggers,      \* per Logger made by Init for the singleton: module, closed, worker
  inits,        \* number of Init calls made by InitSingleStr
  ipc,          \* per singleton caller: position inside its call
  iarg,         \* per singleton caller: the module argument of its InitSingleStr
  iwait,        \* per singleton caller: the Logger whose StopSync it is inside
  iret,         \* per singleton caller: what its last InitSingleStr returned
  ibase,        \* per singleton caller: firstRet when its InitSingleStr began
  iexp,         \* per singleton caller: ibase when its last InitSingleStr returned
                \* (ibase and iexp are reset when singleLogger is cleared)
  firstRet,     \* what the first InitSingleStr since the last clear returned
  msgLen,       \* logger.msgLen (the revision with printMessage)
  message,      \* msg.Message given to printMessage
  text,         \* the local text of printMessage: what is left to print
  parts,        \* msgPart.Message of every object printed, in order
  encpc,        \* position inside printMessage / the escape loop of writeMessage
  messageBytes, \* tmpBuf.Bytes() in writeMessage: the formatted message
  ei,           \* the index i of the escape loop
  buf,          \* what the escape loop has written to buf: the message field
  mpc,          \* the field a goroutine is storing into: "writers", "level" or "idle"
  mval          \* the value that store is writing

pipeVars == <<Level, output, cap, closed, writers, broken, msgPool, allocated, rec, calls,
              ppc, pmsg, pcall, wpc, wmsg, wsnap, wi, wlog, notices, outcome, clevel,
              cprod, cframe, sent, deq, handled, startedAt, levelSets, spc, senq, panic>>
singleVars == <<singleLogger, loggers, inits, ipc, iarg, iwait, iret, ibase, iexp, firstRet>>
encVars == <<msgLen, message, text, parts, encpc, messageBytes, ei, buf>>
cfgVars == <<mpc, mval>>
vars == <<pipeVars, singleVars, encVars, cfgVars>>

\* ---- helpers ----
Range(s) == {s[i] : i \in 1..Len(s)}

RECURSIVE Concat(_)
Concat(ss) == IF ss = <<>> THEN <<>> ELSE Head(ss) \o Concat(Tail(ss))

ZeroMsg == [Level |-> DebugLevel, format |-> 0, values |-> NilValues,
            SrcFile |-> <<>>, SrcLine |-> 0]

\* runtime.Caller(2): the file (a string, here a sequence of characters) and line of
\* the caller's frame and ok, or "", 0 and false when there is no such frame
CallerFrame == [file |-> <<"/", "s", "/", "m">>, line |-> 7, ok |-> TRUE]

NoFrame == [file |-> <<>>, line |-> 0, ok |-> FALSE]

Frames == {CallerFrame, NoFrame}

IsPathSeparator(ch) == ch = "/"

\* filepath.Base: "." for the empty path; trailing separators are dropped, then
\* what follows the last separator is kept; "/" when only separators were there
RECURSIVE StripTrailing(_)
StripTrailing(path) ==
  IF Len(path) > 0 /\ IsPathSeparator(path[Len(path)])
    THEN StripTrailing(SubSeq(path, 1, Len(path) - 1))
    ELSE path

RECURSIVE LastElement(_)
LastElement(path) ==
  IF \E k \in 1..Len(path) : IsPathSeparator(path[k])
    THEN LastElement(Tail(path))
    ELSE path

\* log.go:144: filepath.Base(msg.SrcFile)
Base(path) ==
  IF path = <<>>
    THEN <<".">>
    ELSE IF LastElement(StripTrailing(path)) = <<>>
           THEN <<"/">>
           ELSE LastElement(StripTrailing(path))

\* log.go:80-124: what writeMessage reads from the message to make the line: the
\* level, the format and the values, the file and the line
Rendered(m) ==
  <<m.Level, m.format, m.values,
    IF m.SrcFile # <<>> THEN <<m.SrcFile, m.SrcLine>> ELSE <<>>>>

\* log.go:118-123: src_file and src_line are written when msg.SrcFile is not ""
SrcFields(m) == IF m.SrcFile # <<>> THEN {"src_file", "src_line"} ELSE {}

\* mutant of BelowLevel: the comparison off by one
BelowLevelOffByOne(lvl, threshold) == lvl + 1 < threshold

\* log.go:135: "if level < logger.Level"
BelowLevel(lvl, threshold) == lvl < threshold

\* mutant of MsgBelowLevel: the worker does not test the threshold
MsgBelowLevelNever(lvl, threshold) == FALSE

\* log.go:73: "if msg.Level < logger.Level"
MsgBelowLevel(lvl, threshold) == lvl < threshold

\* mutants of ChanHasRoom: one slot lost; never full
ChanHasRoomOffByOne(q, c) == Len(q) + 1 < c

ChanHasRoomAlways(q, c) == TRUE

\* a buffered channel accepts a non-blocking send iff its buffer has room
ChanHasRoom(q, c) == Len(q) < c

\* mutant of ChanSend: the newest message overtakes the queued ones
ChanSendFront(q, m) == <<m>> \o q

\* the channel is a FIFO: a send appends, a receive takes the head
ChanSend(q, m) == Append(q, m)

ChanRecvMsg(q) == Head(q)

\* mutant of ChanRecvRest: the received message stays in the buffer
ChanRecvRestKept(q) == q

ChanRecvRest(q) == Tail(q)

Running == panic = NoPanic

\* a read of logger.writers (log.go:128) that is not ordered with a store in
\* progress (log.go:258) gives the old slice, the new one, or a torn slice header:
\* the old array with the new length, whose last element is whatever lies there
Garbage == -1

TornSlice(old, new) == [i \in 1..Len(new) |-> IF i <= Len(old) THEN old[i] ELSE Garbage]

WritersRead ==
  IF mpc = "writers" THEN {writers, mval, TornSlice(writers, mval)} ELSE {writers}

\* a read of logger.Level (log.go:73, log.go:135) that is not ordered with a store
\* in progress gives the old or the new value
LevelRead == IF mpc = "level" THEN {Level, mval} ELSE {Level}

\* mutant of PoolPut: the message is not kept
PoolPutLost(pool, m) == pool

\* msgPool.Put
PoolPut(pool, m) == pool \cup {m}

\* ---- Init (log.go:158-194) ----
PipeInit0 ==
  /\ Level = InfoLevel
  /\ output = <<>>
  /\ closed = FALSE
  /\ writers = <<>>
  /\ broken = {}
  /\ msgPool = {}
  /\ allocated = 0
  /\ rec = [m \in Msgs |-> ZeroMsg]
  /\ calls = 0
  /\ ppc = [p \in Producers |-> "idle"]
  /\ pmsg = [p \in Producers |-> 0]
  /\ pcall = [p \in Producers |-> 0]
  /\ wpc = "start"
  /\ wmsg = 0
  /\ wsnap = <<>>
  /\ wi = 0
  /\ wlog = <<>>
  /\ notices = 0
  /\ outcome = [c \in Calls |-> "none"]
  /\ clevel = [c \in Calls |-> DebugLevel]
  /\ cprod = [c \in Calls |-> 0]
  /\ cframe = [c \in Calls |-> NoFrame]
  /\ sent = <<>>
  /\ deq = <<>>
  /\ handled = {}
  /\ startedAt = 0
  /\ levelSets = 0
  /\ spc = [s \in Stoppers |-> "idle"]
  /\ senq = [s \in Stoppers |-> {}]
  /\ panic = NoPanic

SingleInit0 ==
  /\ singleLogger = 0
  /\ loggers = [h \in Handles |-> [module |-> "", closed |-> FALSE, worker |-> FALSE]]
  /\ inits = 0
  /\ ipc = [g \in InitCallers |-> "idle"]
  /\ iarg = [g \in InitCallers |-> ""]
  /\ iwait = [g \in InitCallers |-> 0]
  /\ iret = [g \in InitCallers |-> 0]
  /\ ibase = [g \in InitCallers |-> 0]
  /\ iexp = [g \in InitCallers |-> 0]
  /\ firstRet = 0

\* the encoder at rest
EncInit0 ==
  /\ msgLen = MaxMsgLength
  /\ message = <<>>
  /\ text = <<>>
  /\ parts = <<>>
  /\ encpc = "off"
  /\ messageBytes = <<>>
  /\ ei = 0
  /\ buf = <<>>
  /\ mpc = "idle"
  /\ mval = <<>>

Init ==
  /\ PipeInit0
  /\ cap = QueueCap
  /\ SingleInit0
  /\ EncInit0

\* ---- Logger.log (log.go:134-154) ----
\* entry of Debug/Info/Warning/Error and the threshold test of log.go:135
logFilter(p, lvl) ==
  /\ Running
  /\ ppc[p] = "idle"
  /\ calls < MaxCalls
  /\ calls' = calls + 1
  /\ clevel' = [clevel EXCEPT ![calls + 1] = lvl]
  /\ cprod' = [cprod EXCEPT ![calls + 1] = p]
  /\ \E threshold \in LevelRead :
        IF BelowLevel(lvl, threshold)
          THEN /\ outcome' = [outcome EXCEPT ![calls + 1] = "filtered"]
               /\ UNCHANGED <<ppc, pcall>>
          ELSE /\ outcome' = [outcome EXCEPT ![calls + 1] = "passed"]
               /\ ppc' = [ppc EXCEPT ![p] = "get"]
               /\ pcall' = [pcall EXCEPT ![p] = calls + 1]
  /\ UNCHANGED <<Level, output, cap, closed, writers, broken, msgPool, allocated, rec, pmsg,
                 wpc, wmsg, wsnap, wi, wlog, notices, deq, handled, startedAt,
                 levelSets, spc, senq, panic, cframe, sent>>
  /\ UNCHANGED <<singleVars, encVars, cfgVars>>

\* log.go:139-144: msgPool.Get (a pooled message, or a new one) and the field stores
\* mutant of FilledMsg: SrcFile and SrcLine are stored only when a frame was found
FilledMsgIfCaught(old, lvl, call, frame) ==
  [Level |-> lvl, format |-> call, values |-> call,
   SrcFile |-> IF frame.ok THEN Base(frame.file) ELSE old.SrcFile,
   SrcLine |-> IF frame.ok THEN frame.line ELSE old.SrcLine]

\* log.go:140-144: the stores into the message; the format and the values of a
\* call are told apart by the number of the call
FilledMsg(old, lvl, call, frame) ==
  [Level |-> lvl, format |-> call, values |-> call,
   SrcFile |-> Base(frame.file), SrcLine |-> frame.line]

logFill(p, m, frame) ==
  /\ pmsg' = [pmsg EXCEPT ![p] = m]
  /\ rec' = [rec EXCEPT ![m] = FilledMsg(rec[m], clevel[pcall[p]], pcall[p], frame)]
  /\ cframe' = [cframe EXCEPT ![pcall[p]] = frame]
  /\ ppc' = [ppc EXCEPT ![p] = "send"]
  /\ outcome' = [outcome EXCEPT ![pcall[p]] = "acquired"]

logGet(p, frame) ==
  /\ Running
  /\ ppc[p] = "get"
  /\ \/ \E m \in msgPool :
          /\ msgPool' = msgPool \ {m}
          /\ allocated' = allocated
          /\ logFill(p, m, frame)
     \/ /\ allocated < MaxCalls
        /\ allocated' = allocated + 1
        /\ msgPool' = msgPool
        /\ logFill(p, allocated + 1, frame)
  /\ UNCHANGED <<Level, output, cap, closed, writers, broken, calls, pcall, wpc, wmsg, wsnap,
                 wi, wlog, notices, clevel, cprod, sent, deq, handled, startedAt,
                 levelSets, spc, senq, panic>>
  /\ UNCHANGED <<singleVars, encVars, cfgVars>>

\* log.go:147-153: select { case logger.output <- msg: default: Put; log.Println }
logSend(p) ==
  /\ Running
  /\ ppc[p] = "send"
  /\ IF closed
       THEN /\ panic' = SendOnClosed
            /\ UNCHANGED <<output, msgPool, notices, outcome, ppc, pmsg, pcall, sent>>
       ELSE /\ panic' = panic
            /\ ppc' = [ppc EXCEPT ![p] = "idle"]
            /\ pmsg' = [pmsg EXCEPT ![p] = 0]
            /\ pcall' = [pcall EXCEPT ![p] = 0]
            /\ IF ChanHasRoom(output, cap)
                 THEN /\ output' = ChanSend(output, pmsg[p])
                      /\ outcome' = [outcome EXCEPT ![pcall[p]] = "enqueued"]
                      /\ sent' = Append(sent, pcall[p])
                      /\ UNCHANGED <<msgPool, notices>>
                 ELSE /\ msgPool' = PoolPut(msgPool, pmsg[p])
                      /\ notices' = notices + 1
                      /\ outcome' = [outcome EXCEPT ![pcall[p]] = "dropped"]
                      /\ UNCHANGED <<output, sent>>
  /\ UNCHANGED <<Level, cap, closed, writers, broken, allocated, rec, calls, wpc, wmsg, wsnap,
                 wi, wlog, clevel, cprod, cframe, deq, handled, startedAt, levelSets, spc,
                 senq>>
  /\ UNCHANGED <<singleVars, encVars, cfgVars>>

\* ---- Logger.worker (log.go:62-70) and Logger.writeMessage (log.go:72-132) ----
\* log.go:191: the goroutine made by "go logger.worker()" gets to run
workerStart ==
  /\ Running
  /\ wpc = "start"
  /\ wpc' = "recv"
  /\ startedAt' = calls - Cardinality({p \in Producers : ppc[p] # "idle"})
  /\ UNCHANGED <<Level, output, cap, closed, writers, broken, msgPool, allocated, rec, calls,
                 ppc, pmsg, pcall, wmsg, wsnap, wi, wlog, notices, outcome, clevel,
                 cprod, cframe, sent, deq, handled, levelSets, spc, senq, panic>>
  /\ UNCHANGED <<singleVars, encVars, cfgVars>>

\* log.go:64: "for msg := range logger.output": receive, or leave the loop when the
\* channel is closed and empty; log.go:63: the deferred wg.Done
workerRecv ==
  /\ Running
  /\ wpc = "recv"
  /\ IF output # <<>>
       THEN /\ wmsg' = ChanRecvMsg(output)
            /\ output' = ChanRecvRest(output)
            /\ deq' = Append(deq, rec[ChanRecvMsg(output)].format)
            /\ wpc' = "write"
       ELSE /\ closed
            /\ wpc' = "done"
            /\ UNCHANGED <<wmsg, output, deq>>
  /\ UNCHANGED <<Level, cap, closed, writers, broken, msgPool, allocated, rec, calls, ppc, pmsg,
                 pcall, wsnap, wi, wlog, notices, outcome, clevel, cprod, cframe, sent, handled,
                 startedAt, levelSets, spc, senq, panic>>
  /\ UNCHANGED <<singleVars, encVars, cfgVars>>

\* log.go:73-127: the threshold test, the rendering and os.Stdout.Write
writeMessageStdout ==
  /\ Running
  /\ wpc = "write"
  /\ \E threshold \in LevelRead :
        IF MsgBelowLevel(rec[wmsg].Level, threshold)
          THEN /\ wpc' = "release"
               /\ wlog' = wlog
          ELSE /\ wpc' = "range"
               /\ wlog' = Append(wlog, [dest |-> Stdout, call |-> rec[wmsg].format,
                                        ok |-> TRUE, regs |-> Len(writers),
                                        fields |-> SrcFields(rec[wmsg]),
                                        line |-> Rendered(rec[wmsg])])
  /\ UNCHANGED <<Level, output, cap, closed, writers, broken, msgPool, allocated, rec, calls,
                 ppc, pmsg, pcall, wmsg, wsnap, wi, notices, outcome, clevel, cprod, cframe, sent,
                 deq, handled, startedAt, levelSets, spc, senq, panic>>
  /\ UNCHANGED <<singleVars, encVars, cfgVars>>

\* log.go:128: the range expression logger.writers is evaluated once
writeMessageRange ==
  /\ Running
  /\ wpc = "range"
  /\ wsnap' \in WritersRead
  /\ wi' = 1
  /\ wpc' = "sinks"
  /\ UNCHANGED <<Level, output, cap, closed, writers, broken, msgPool, allocated, rec, calls,
                 ppc, pmsg, pcall, wmsg, wlog, notices, outcome, clevel, cprod, cframe, sent, deq,
                 handled, startedAt, levelSets, spc, senq, panic>>
  /\ UNCHANGED <<singleVars, encVars, cfgVars>>

\* log.go:129: w.Write(buf.Bytes()), its error ignored; log.go:130-131: loop end
\* mutant of AfterWrite: a failed Write ends the loop
AfterWriteStopOnError(ok) == IF ok THEN "sinks" ELSE "release"

\* log.go:129: the result of w.Write is dropped, the loop goes on
AfterWrite(ok) == "sinks"

SinkStep(ok) ==
  /\ wlog' = Append(wlog, [dest |-> wsnap[wi], call |-> rec[wmsg].format,
                           ok |-> ok, regs |-> 0, fields |-> SrcFields(rec[wmsg]),
                           line |-> Rendered(rec[wmsg])])
  /\ wi' = wi + 1
  /\ wpc' = AfterWrite(ok)

writeMessageSink ==
  /\ Running
  /\ wpc = "sinks"
  /\ IF wi <= Len(wsnap)
       THEN IF wsnap[wi] = Garbage
              THEN /\ panic' = MemoryFault
                   /\ UNCHANGED <<wlog, wi, wpc>>
              ELSE /\ SinkStep(wsnap[wi] \notin broken)
                   /\ panic' = panic
       ELSE /\ wpc' = "release"
            /\ UNCHANGED <<wlog, wi, panic>>
  /\ UNCHANGED <<Level, output, cap, closed, writers, broken, msgPool, allocated, rec, calls,
                 ppc, pmsg, pcall, wmsg, wsnap, notices, outcome, clevel, cprod, cframe, sent,
                 deq, handled, startedAt, levelSets, spc, senq>>
  /\ UNCHANGED <<singleVars, encVars, cfgVars>>

\* log.go:67-68: msg.values = nil; logger.msgPool.Put(msg)
workerRelease ==
  /\ Running
  /\ wpc = "release"
  /\ rec' = [rec EXCEPT ![wmsg].values = NilValues]
  /\ msgPool' = PoolPut(msgPool, wmsg)
  /\ handled' = handled \cup {rec[wmsg].format}
  /\ wmsg' = 0
  /\ wsnap' = <<>>
  /\ wi' = 0
  /\ wpc' = "recv"
  /\ UNCHANGED <<Level, output, cap, closed, writers, broken, allocated, calls, ppc, pmsg,
                 pcall, wlog, notices, outcome, clevel, cprod, cframe, sent, deq, startedAt,
                 levelSets, spc, senq, panic>>
  /\ UNCHANGED <<singleVars, encVars, cfgVars>>

\* ---- configuration changed at run time ----
\* log.go:257-259: logger.writers = append(logger.writers, writer);
\* the k-th writer registered is sink k; its Write either works or returns an error
AddWriter(bad) ==
  /\ Running
  /\ mpc = "idle"
  /\ Len(writers) < MaxWriters
  /\ writers' = Append(writers, Len(writers) + 1)
  /\ broken' = IF bad THEN broken \cup {Len(writers) + 1} ELSE broken
  /\ UNCHANGED <<Level, output, cap, closed, msgPool, allocated, rec, calls, ppc, pmsg,
                 pcall, wpc, wmsg, wsnap, wi, wlog, notices, outcome, clevel, cprod, cframe, sent,
                 deq, handled, startedAt, levelSets, spc, senq, panic>>
  /\ UNCHANGED <<singleVars, encVars, cfgVars>>

\* log.go:52: Level is an exported field, assigned by the application
SetLevel(lvl) ==
  /\ Running
  /\ mpc = "idle"
  /\ levelSets < MaxLevelSets
  /\ lvl # Level
  /\ Level' = lvl
  /\ levelSets' = levelSets + 1
  /\ UNCHANGED <<output, cap, closed, writers, broken, msgPool, allocated, rec, calls, ppc,
                 pmsg, pcall, wpc, wmsg, wsnap, wi, wlog, notices, outcome, clevel,
                 cprod, cframe, sent, deq, handled, startedAt, spc, senq, panic>>
  /\ UNCHANGED <<singleVars, encVars, cfgVars>>

\* ---- the same two stores, in the steps the code takes ----
\* log.go:258: append(logger.writers, writer) reads the slice and makes the new one
AddWriterLoad(bad) ==
  /\ Running
  /\ mpc = "idle"
  /\ Len(writers) < MaxWriters
  /\ mval' = Append(writers, Len(writers) + 1)
  /\ mpc' = "writers"
  /\ broken' = IF bad THEN broken \cup {Len(writers) + 1} ELSE broken
  /\ UNCHANGED <<Level, output, cap, closed, writers, msgPool, allocated, rec, calls, ppc,
                 pmsg, pcall, wpc, wmsg, wsnap, wi, wlog, notices, outcome, clevel, cprod,
                 cframe, sent, deq, handled, startedAt, levelSets, spc, senq, panic>>
  /\ UNCHANGED <<singleVars, encVars>>

\* log.go:258: the assignment to logger.writers, with no lock held
AddWriterStore ==
  /\ Running
  /\ mpc = "writers"
  /\ writers' = mval
  /\ mpc' = "idle"
  /\ mval' = <<>>
  /\ UNCHANGED <<Level, output, cap, closed, broken, msgPool, allocated, rec, calls, ppc,
                 pmsg, pcall, wpc, wmsg, wsnap, wi, wlog, notices, outcome, clevel, cprod,
                 cframe, sent, deq, handled, startedAt, levelSets, spc, senq, panic>>
  /\ UNCHANGED <<singleVars, encVars>>

\* an assignment "logger.Level = lvl" by the application: the value is computed
SetLevelLoad(lvl) ==
  /\ Running
  /\ mpc = "idle"
  /\ levelSets < MaxLevelSets
  /\ lvl # Level
  /\ mval' = lvl
  /\ mpc' = "level"
  /\ UNCHANGED pipeVars
  /\ UNCHANGED <<singleVars, encVars>>

\* the store into logger.Level (log.go:52), a plain field
SetLevelStore ==
  /\ Running
  /\ mpc = "level"
  /\ Level' = mval
  /\ levelSets' = levelSets + 1
  /\ mpc' = "idle"
  /\ mval' = <<>>
  /\ UNCHANGED <<output, cap, closed, writers, broken, msgPool, allocated, rec, calls, ppc,
                 pmsg, pcall, wpc, wmsg, wsnap, wi, wlog, notices, outcome, clevel,
                 cprod, cframe, sent, deq, handled, startedAt, spc, senq, panic>>
  /\ UNCHANGED <<singleVars, encVars>>

\* ---- Logger.Stop (log.go:212-214) and Logger.StopSync (log.go:216-219) ----
\* close(logger.output): closing a closed channel panics
CloseChan ==
  IF closed
    THEN /\ panic' = CloseOfClosed
         /\ closed' = closed
    ELSE /\ panic' = panic
         /\ closed' = TRUE

Enqueued == {c \in Calls : outcome[c] = "enqueued"}

Stop(s) ==
  /\ Running
  /\ spc[s] = "idle"
  /\ CloseChan
  /\ spc' = [spc EXCEPT ![s] = IF closed THEN "panicked" ELSE "returned"]
  /\ UNCHANGED <<Level, output, cap, writers, broken, msgPool, allocated, rec, calls, ppc, pmsg,
                 pcall, wpc, wmsg, wsnap, wi, wlog, notices, outcome, clevel, cprod, cframe, sent,
                 deq, handled, startedAt, levelSets, senq>>
  /\ UNCHANGED <<singleVars, encVars, cfgVars>>

\* log.go:217: close(logger.output)
StopSyncClose(s) ==
  /\ Running
  /\ spc[s] = "idle"
  /\ CloseChan
  /\ spc' = [spc EXCEPT ![s] = IF closed THEN "panicked" ELSE "wait"]
  /\ senq' = [senq EXCEPT ![s] = Enqueued]
  /\ UNCHANGED <<Level, output, cap, writers, broken, msgPool, allocated, rec, calls, ppc, pmsg,
                 pcall, wpc, wmsg, wsnap, wi, wlog, notices, outcome, clevel, cprod, cframe, sent,
                 deq, handled, startedAt, levelSets>>
  /\ UNCHANGED <<singleVars, encVars, cfgVars>>

\* mutant of WaitDone: StopSync does not wait
WaitDoneAtOnce == TRUE

\* log.go:218: logger.wg.Wait() returns once the worker has run wg.Done
WaitDone == wpc = "done"

StopSyncWait(s) ==
  /\ Running
  /\ spc[s] = "wait"
  /\ WaitDone
  /\ spc' = [spc EXCEPT ![s] = "synced"]
  /\ UNCHANGED <<Level, output, cap, closed, writers, broken, msgPool, allocated, rec, calls,
                 ppc, pmsg, pcall, wpc, wmsg, wsnap, wi, wlog, notices, outcome, clevel,
                 cprod, cframe, sent, deq, handled, startedAt, levelSets, senq, panic>>
  /\ UNCHANGED <<singleVars, encVars, cfgVars>>

Emit ==
  \/ \E p \in Producers, lvl \in EmitLevels : logFilter(p, lvl)
  \/ \E p \in Producers : logGet(p, CallerFrame)
  \/ \E p \in Producers : logSend(p)

Work ==
  \/ workerStart
  \/ workerRecv
  \/ writeMessageStdout
  \/ writeMessageRange
  \/ writeMessageSink
  \/ workerRelease

Halt ==
  \/ \E s \in Stoppers : Stop(s)
  \/ \E s \in Stoppers : StopSyncClose(s)
  \/ \E s \in Stoppers : StopSyncWait(s)

Next ==
  \/ Emit
  \/ Work
  \/ \E bad \in BOOLEAN : AddWriter(bad)
  \/ \E lvl \in Levels : SetLevel(lvl)
  \/ Halt

\* the whole logger: emitters, worker, run-time configuration, Stop and StopSync
Spec == Init /\ [][Next]_vars

\* ---- the singleton (log.go:60, log.go:271-276, log.go:302-314) ----
SingleRunning == \A g \in InitCallers : ipc[g] # "panicked"

\* mutant of NilLogger: the test is inverted
NilLoggerInverted(l) == l # 0

\* log.go:272: "if singleLogger == nil"
NilLogger(l) == l = 0

\* log.go:271-272: InitSingleStr(module) tests the global
InitSingleStrCheck(g, module) ==
  /\ SingleRunning
  /\ ipc[g] = "idle"
  /\ ipc' = [ipc EXCEPT ![g] = IF NilLogger(singleLogger) THEN "init" ELSE "ret"]
  /\ iarg' = [iarg EXCEPT ![g] = module]
  /\ ibase' = [ibase EXCEPT ![g] = firstRet]
  /\ UNCHANGED <<singleLogger, loggers, inits, iwait, iret, iexp, firstRet>>
  /\ UNCHANGED <<pipeVars, encVars, cfgVars>>

\* log.go:273: singleLogger = Init(module); Init (log.go:158-194) makes the Logger
\* and starts its worker
InitSingleStrInit(g) ==
  /\ SingleRunning
  /\ ipc[g] = "init"
  /\ inits < MaxInits
  /\ inits' = inits + 1
  /\ loggers' = [loggers EXCEPT ![inits + 1] =
                   [module |-> iarg[g], closed |-> FALSE, worker |-> TRUE]]
  /\ singleLogger' = inits + 1
  /\ ipc' = [ipc EXCEPT ![g] = "ret"]
  /\ UNCHANGED <<iarg, iwait, iret, ibase, iexp, firstRet>>
  /\ UNCHANGED <<pipeVars, encVars, cfgVars>>

\* log.go:275: return singleLogger
InitSingleStrReturn(g) ==
  /\ SingleRunning
  /\ ipc[g] = "ret"
  /\ iret' = [iret EXCEPT ![g] = singleLogger]
  /\ iexp' = [iexp EXCEPT ![g] = ibase[g]]
  /\ firstRet' = IF firstRet = 0 THEN singleLogger ELSE firstRet
  /\ ipc' = [ipc EXCEPT ![g] = "idle"]
  /\ UNCHANGED <<singleLogger, loggers, inits, iarg, iwait, ibase>>
  /\ UNCHANGED <<pipeVars, encVars, cfgVars>>

\* log.go:303 and log.go:310: "if singleLogger != nil"
StopSingleCheck(g, sync) ==
  /\ SingleRunning
  /\ ipc[g] = "idle"
  /\ ipc' = [ipc EXCEPT ![g] = IF NilLogger(singleLogger) THEN "clear"
                               ELSE IF sync THEN "stopsync" ELSE "stop"]
  /\ UNCHANGED <<singleLogger, loggers, inits, iarg, iwait, iret, ibase, iexp, firstRet>>
  /\ UNCHANGED <<pipeVars, encVars, cfgVars>>

\* log.go:304 and log.go:311: singleLogger.Stop() / singleLogger.StopSync() read the
\* global again and close the channel of that Logger (log.go:213, log.go:217); a nil
\* receiver or a closed channel panics
StopSingleClose(g) ==
  /\ SingleRunning
  /\ ipc[g] \in {"stop", "stopsync"}
  /\ IF singleLogger = 0 \/ loggers[singleLogger].closed
       THEN /\ ipc' = [ipc EXCEPT ![g] = "panicked"]
            /\ UNCHANGED <<loggers, iwait>>
       ELSE /\ loggers' = [loggers EXCEPT ![singleLogger].closed = TRUE]
            /\ iwait' = [iwait EXCEPT ![g] = singleLogger]
            /\ ipc' = [ipc EXCEPT ![g] = IF ipc[g] = "stop" THEN "clear" ELSE "wait"]
  /\ UNCHANGED <<singleLogger, inits, iarg, iret, ibase, iexp, firstRet>>
  /\ UNCHANGED <<pipeVars, encVars, cfgVars>>

\* log.go:218: logger.wg.Wait() inside StopSyncSingle
StopSyncSingleWait(g) ==
  /\ SingleRunning
  /\ ipc[g] = "wait"
  /\ ~loggers[iwait[g]].worker
  /\ ipc' = [ipc EXCEPT ![g] = "clear"]
  /\ UNCHANGED <<singleLogger, loggers, inits, iarg, iwait, iret, ibase, iexp, firstRet>>
  /\ UNCHANGED <<pipeVars, encVars, cfgVars>>

\* log.go:306 and log.go:313: singleLogger = nil
StopSingleClear(g) ==
  /\ SingleRunning
  /\ ipc[g] = "clear"
  /\ singleLogger' = 0
  /\ firstRet' = 0
  /\ ibase' = [h \in InitCallers |-> 0]
  /\ iexp' = [h \in InitCallers |-> 0]
  /\ ipc' = [ipc EXCEPT ![g] = "idle"]
  /\ UNCHANGED <<loggers, inits, iarg, iwait, iret>>
  /\ UNCHANGED <<pipeVars, encVars, cfgVars>>

\* log.go:62-70: the worker of a Logger whose channel is closed drains it and exits
SingleWorkerExit(h) ==
  /\ SingleRunning
  /\ loggers[h].worker
  /\ loggers[h].closed
  /\ loggers' = [loggers EXCEPT ![h].worker = FALSE]
  /\ UNCHANGED <<singleLogger, inits, ipc, iarg, iwait, iret, ibase, iexp, firstRet>>
  /\ UNCHANGED <<pipeVars, encVars, cfgVars>>

NextSingle ==
  \/ \E g \in InitCallers, module \in Modules : InitSingleStrCheck(g, module)
  \/ \E g \in InitCallers : InitSingleStrInit(g)
  \/ \E g \in InitCallers : InitSingleStrReturn(g)
  \/ \E g \in InitCallers, sync \in BOOLEAN : StopSingleCheck(g, sync)
  \/ \E g \in InitCallers : StopSingleClose(g)
  \/ \E g \in InitCallers : StopSyncSingleWait(g)
  \/ \E g \in InitCallers : StopSingleClear(g)
  \/ \E h \in Handles : SingleWorkerExit(h)

\* the singleton functions called from several goroutines
SpecSingle == Init /\ [][NextSingle]_vars

\* emitters and worker alone, for every channel capacity up to the number of calls
InitLoad ==
  /\ PipeInit0
  /\ cap \in 1..MaxCalls
  /\ SingleInit0
  /\ EncInit0

NextLoad ==
  \/ Emit
  \/ Work

SpecLoad == InitLoad /\ [][NextLoad]_vars

\* emitters, worker, Stop and StopSync
NextStop ==
  \/ Emit
  \/ Work
  \/ Halt

SpecStop == Init /\ [][NextStop]_vars

\* the same, with the scheduler's fairness: the worker goroutine and every
\* goroutine inside Logger.log keep being scheduled
SpecFairStop ==
  /\ Init
  /\ [][NextStop]_vars
  /\ WF_vars(Work)
  /\ \A p \in Producers : WF_vars(logGet(p, CallerFrame)) /\ WF_vars(logSend(p))

\* emitters and a worker that is never stopped, with the scheduler's fairness
SpecFair ==
  /\ Init
  /\ [][NextLoad]_vars
  /\ WF_vars(Work)
  /\ \A p \in Producers : WF_vars(logGet(p, CallerFrame)) /\ WF_vars(logSend(p))

\* emitters, worker and assignments to logger.Level
NextLevel ==
  \/ Emit
  \/ Work
  \/ \E lvl \in Levels : SetLevel(lvl)

SpecLevel == Init /\ [][NextLevel]_vars

\* one emitter, the worker and AddWriter
OneProducer == CHOOSE p \in Producers : TRUE

NextSinks ==
  \/ \E lvl \in EmitLevels : logFilter(OneProducer, lvl)
  \/ logGet(OneProducer, CallerFrame)
  \/ logSend(OneProducer)
  \/ Work
  \/ \E bad \in BOOLEAN : AddWriter(bad)

SpecSinks == Init /\ [][NextSinks]_vars

\* ---- what the histories say ----
Started == 1..calls

Passed == {c \in Started : outcome[c] # "filtered"}

Dropped == {c \in Started : outcome[c] = "dropped"}

WritesOf(c, d) == {i \in 1..Len(wlog) : wlog[i].call = c /\ wlog[i].dest = d}

Written == {c \in Started : WritesOf(c, Stdout) # {}}

\* nothing in flight: every call has returned, the queue is empty, the worker waits
Quiet ==
  /\ \A p \in Producers : ppc[p] = "idle"
  /\ output = <<>>
  /\ wpc = "recv"

\* ---------------------------------------------------------------------------
\* C1: a submission at or above the threshold never blocks: its send step returns
\* to the caller; with the queue holding cap records the record is not enqueued, is
\* put back in msgPool and one notice is printed; with room the record is enqueued
\* and no notice is printed.  Stated for every state the send can run in.
SendRuns(p) ==
  /\ ppc[p] = "send"
  /\ \/ ppc'[p] = "idle"
     \/ panic = NoPanic /\ panic' = SendOnClosed

SendPolicy(p) ==
  /\ ppc'[p] = "idle"
  /\ panic' = NoPanic
  /\ IF Len(output) >= cap
       THEN /\ output' = output
            /\ pmsg[p] \in msgPool'
            /\ notices' = notices + 1
       ELSE /\ output' = Append(output, pmsg[p])
            /\ notices' = notices
            /\ pmsg[p] \notin msgPool'

C1_NonBlockingSend == [][\A p \in Producers : SendRuns(p) => SendPolicy(p)]_vars

\* C1 restricted to a channel that has not been closed
C1_OpenQueuePolicy == [][\A p \in Producers : (SendRuns(p) /\ ~closed) => SendPolicy(p)]_vars

\* ---------------------------------------------------------------------------
\* C2: when the capacity is at least the number of messages emitted at or above the
\* threshold by the concurrent producers, then once nothing is in flight every one
\* of them has been written exactly once, none was dropped, and nothing else was
\* written.
C2_AllWrittenOnce ==
  (Quiet /\ cap >= Cardinality(Passed)) =>
     /\ \A c \in Passed : Cardinality(WritesOf(c, Stdout)) = 1
     /\ Dropped = {}
     /\ notices = 0
     /\ Len(wlog) = Cardinality(Passed)

C2_Witness ==
  /\ Quiet
  /\ Cardinality(Passed) = MaxCalls
  /\ cap >= MaxCalls
  /\ Cardinality({cprod[c] : c \in Passed}) > 1
  /\ Len(wlog) = MaxCalls

\* ---------------------------------------------------------------------------
\* C8: a burst of K > cap messages at or above the threshold, all submitted before
\* the worker first runs: once nothing is in flight exactly cap of them have been
\* written, each once, the other K - cap were dropped with one notice each, and no
\* message is both written and dropped.
BurstBeforeWorker == startedAt = calls /\ wpc # "start"

C8_OverloadAccounting ==
  (Quiet /\ BurstBeforeWorker /\ Cardinality(Passed) > cap) =>
     /\ Cardinality(Written) = cap
     /\ \A c \in Written : Cardinality(WritesOf(c, Stdout)) = 1
     /\ Cardinality(Dropped) = Cardinality(Passed) - cap
     /\ notices = Cardinality(Dropped)
     /\ Written \cap Dropped = {}
     /\ Written \cup Dropped = Passed
     /\ handled = Written

C8_Witness ==
  /\ Quiet
  /\ BurstBeforeWorker
  /\ Cardinality(Passed) = MaxCalls
  /\ cap < MaxCalls
  /\ Cardinality(Written) = cap
  /\ Dropped # {}

\* ---------------------------------------------------------------------------
\* C3: when StopSync has returned, the channel is closed and empty, the worker has
\* exited, and every call enqueued before StopSync was called has been handled by
\* the worker and, being at or above the threshold, written.
C3_StopSyncFlushes ==
  \A s \in Stoppers : spc[s] = "synced" =>
     /\ closed
     /\ wpc = "done"
     /\ output = <<>>
     /\ \A c \in senq[s] : c \in handled /\ (clevel[c] >= Level => c \in Written)

C3_Witness ==
  \E s \in Stoppers :
     /\ spc[s] = "synced"
     /\ senq[s] # {}
     /\ senq[s] \subseteq Written

\* ---------------------------------------------------------------------------
\* C4: a second Stop or StopSync on the same logger returns normally: no call of
\* Stop or StopSync ends in a panic.
C4_StopTwiceNoPanic == panic # CloseOfClosed

\* ---------------------------------------------------------------------------
\* C5: an emit call whose level is below logger.Level when it is made has no side
\* effect: its step leaves msgPool, the messages, the queue, the notices and the
\* output as they were and returns, and no line is ever written or queued for it.
CallBelow == calls' = calls + 1 /\ clevel'[calls'] < Level

C5_NoEffect ==
  /\ UNCHANGED <<msgPool, allocated, rec, output, notices, wlog, pmsg, ppc, deq>>
  /\ outcome'[calls'] = "filtered"

C5_BelowThresholdNoEffect ==
  /\ [][CallBelow => C5_NoEffect]_vars
  /\ [](\A c \in Started : outcome[c] = "filtered" =>
          /\ WritesOf(c, Stdout) = {}
          /\ \A i \in 1..Len(deq) : deq[i] # c
          /\ \A p \in Producers : pcall[p] # c)

C5_Witness ==
  \E c \in Started :
     /\ outcome[c] = "filtered"
     /\ clevel[c] = WarningLevel
     /\ Written # {}

\* ---------------------------------------------------------------------------
\* C6: the worker receives the records of one producer in the order that producer
\* submitted them, and it has finished a record (its writes and its Put) before it
\* receives the next: writes of different records never interleave.
DeqPos(c) == CHOOSE i \in 1..Len(deq) : deq[i] = c

C6_FifoSequential ==
  /\ \A i, j \in 1..Len(deq) :
        (i < j /\ cprod[deq[i]] = cprod[deq[j]]) => deq[i] < deq[j]
  /\ \A i \in 1..Len(deq) : i < Len(deq) => deq[i] \in handled
  /\ \A a, b \in 1..Len(wlog) : a < b => DeqPos(wlog[a].call) <= DeqPos(wlog[b].call)
  /\ wmsg # 0 => (deq # <<>> /\ rec[wmsg].format = deq[Len(deq)])

C6_Witness ==
  /\ Len(deq) >= 2
  /\ cprod[deq[1]] = cprod[deq[2]]
  /\ Len(wlog) >= 2

\* ---------------------------------------------------------------------------
\* C7: while the worker runs, a record taken from msgPool by an emit call, whether
\* held by the caller, queued or held by the worker, is eventually back in msgPool.
Held(m) ==
  \/ \E p \in Producers : pmsg[p] = m
  \/ m \in Range(output)
  \/ wmsg = m

WorkerRunning == wpc # "done" /\ panic = NoPanic

C7_RecordsReturn == \A m \in Msgs : Held(m) ~> m \in msgPool

\* C7 with Stop and StopSync in play (under SpecFairStop): a record is not held
\* forever while the worker goroutine is running
C7_RecordsReturnWhileRunning ==
  \A m \in Msgs : Held(m) ~> (m \in msgPool \/ ~WorkerRunning)

C7_Witness ==
  /\ WorkerRunning
  /\ \E m \in msgPool : rec[m].format \in handled
  /\ \E m \in msgPool : rec[m].format \in Dropped

\* ---------------------------------------------------------------------------
\* C9: the line of a written record goes once to stdout and then, right after and
\* in registration order, once to each registered writer; once the worker is done
\* with the record every writer registered before its stdout write has been
\* written to, whatever the Writes returned.
WritesOfCall(c) == {j \in 1..Len(wlog) : wlog[j].call = c}

StdoutWrite(c) == CHOOSE i \in WritesOf(c, Stdout) : TRUE

C9_FanOutInOrder ==
  \A c \in Written :
     /\ Cardinality(WritesOf(c, Stdout)) = 1
     /\ \A j \in WritesOfCall(c) :
           /\ j >= StdoutWrite(c)
           /\ wlog[j].dest = j - StdoutWrite(c)
     /\ c \in handled =>
           \A d \in 1..wlog[StdoutWrite(c)].regs : WritesOf(c, d) # {}

\* a failed Write to the first writer, then the same line to the second writer,
\* then a later record written
C9_Witness ==
  \E i \in 1..Len(wlog) :
     /\ wlog[i].dest = 1
     /\ ~wlog[i].ok
     /\ i + 2 <= Len(wlog)
     /\ wlog[i + 1].dest = 2
     /\ wlog[i + 1].call = wlog[i].call
     /\ wlog[i + 2].dest = Stdout

\* ---------------------------------------------------------------------------
\* C10: once an InitSingleStr call has returned, every InitSingleStr call that
\* begins afterwards, from any goroutine and with any module name, returns that
\* same Logger, with the module name of the first call, and no further worker is
\* started, until StopSingle or StopSyncSingle clears singleLogger.
C10_SingletonIdempotent ==
  \A g \in InitCallers :
     /\ iexp[g] # 0 =>
           /\ iret[g] = iexp[g]
           /\ loggers[iret[g]].module = loggers[iexp[g]].module
     /\ ibase[g] # 0 => ipc[g] # "init"

\* ---- printMessage (unnamed/part_000:60-97): long messages split in parts ----
\* a message text is a sequence of bytes
\* bytes that are not a newline
PlainBytes == {97, 98}

SplitAlphabet == {Newline} \cup PlainBytes

SplitTexts == UNION {[1..k -> SplitAlphabet] : k \in 0..MaxTextLen}

\* part_000:140-143: msgLen from LOG_MSG_LEN, MaxMsgLength when it is unset or 0
InitMsgLen(env) == IF env = 0 THEN MaxMsgLength ELSE env

\* the Go slice expression s[lo:hi]
Slice(s, lo, hi) == SubSeq(s, lo + 1, hi)

\* strings.Index(s, "\n"): the offset of the first newline, -1 when there is none
StrIndex(s) ==
  IF \E k \in 1..Len(s) : s[k] = Newline
    THEN (CHOOSE k \in 1..Len(s) :
            s[k] = Newline /\ \A j \in 1..(k - 1) : s[j] # Newline) - 1
    ELSE -1

\* part_000:68-75: the loop that walks the newlines while their offset is <= msgLen
RECURSIVE LastNewlineScan(_, _, _, _)
LastNewlineScan(t, n, i, index) ==
  IF i # -1 /\ i <= n
    THEN LET j == StrIndex(Slice(t, i + 1, Len(t)))
         IN  IF j = -1 THEN i ELSE LastNewlineScan(t, n, j + i + 1, i)
    ELSE index

\* mutant of CutIndex: the first newline is taken, not the last one in the window
CutIndexFirst(t, n) == IF StrIndex(t) <= n THEN StrIndex(t) ELSE -1

\* part_000:66-75: index, the offset to cut at, -1 when no newline is in the window
CutIndex(t, n) == LastNewlineScan(t, n, StrIndex(t), -1)

\* mutant of TextTooLong: a text of exactly msgLen bytes is split too
TextTooLongOrEqual(t, n) == Len(t) >= n

\* part_000:65: "for len(text) > logger.msgLen"
TextTooLong(t, n) == Len(t) > n

\* part_000:65-89: one turn of the loop: carve a part off text and print it
printMessageCarve ==
  /\ encpc = "split"
  /\ TextTooLong(text, msgLen)
  /\ LET index == CutIndex(text, msgLen)
     IN  IF index = -1
           THEN /\ parts' = Append(parts, Slice(text, 0, msgLen))
                /\ text' = Slice(text, msgLen, Len(text))
           ELSE /\ parts' = Append(parts, Slice(text, 0, index))
                /\ text' = Slice(text, index + 1, Len(text))
  /\ UNCHANGED <<msgLen, message, encpc, messageBytes, ei, buf>>
  /\ UNCHANGED <<pipeVars, singleVars, cfgVars>>

\* part_000:90-96: the loop is over, what is left is printed as the last object
printMessageLast ==
  /\ encpc = "split"
  /\ ~TextTooLong(text, msgLen)
  /\ parts' = Append(parts, text)
  /\ encpc' = "printed"
  /\ UNCHANGED <<msgLen, message, text, messageBytes, ei, buf>>
  /\ UNCHANGED <<pipeVars, singleVars, cfgVars>>

\* printMessage called with any text, for any LOG_MSG_LEN that is not negative
InitSplit ==
  /\ PipeInit0
  /\ cap = QueueCap
  /\ SingleInit0
  /\ \E env \in 0..MaxEnvLen : msgLen = InitMsgLen(env)
  /\ message \in SplitTexts
  /\ text = message
  /\ parts = <<>>
  /\ encpc = "split"
  /\ messageBytes = <<>>
  /\ ei = 0
  /\ buf = <<>>
  /\ mpc = "idle"
  /\ mval = <<>>

NextSplit ==
  \/ printMessageCarve
  \/ printMessageLast

SpecSplit == InitSplit /\ [][NextSplit]_vars

CeilDiv(n, d) == (n + d - 1) \div d

HasNewline(t) == \E k \in 1..Len(t) : t[k] = Newline

\* ---------------------------------------------------------------------------
\* C11: when printMessage has printed a message of N bytes with msgLen = S: if
\* N <= S it printed one object carrying the whole text; if N > S and the text has
\* no newline it printed ceil(N/S) objects, every one but the last carrying exactly
\* S bytes, and the parts joined in order are the text.
C11_SplitCount ==
  encpc = "printed" =>
     /\ Len(message) <= msgLen => parts = <<message>>
     /\ (Len(message) > msgLen /\ ~HasNewline(message)) =>
           /\ Len(parts) = CeilDiv(Len(message), msgLen)
           /\ \A k \in 1..(Len(parts) - 1) : Len(parts[k]) = msgLen
           /\ Len(parts[Len(parts)]) \in 1..msgLen
           /\ Concat(parts) = message

C11_Witness ==
  /\ encpc = "printed"
  /\ ~HasNewline(message)
  /\ msgLen = 2
  /\ Len(message) = 3
  /\ Len(parts) = 2
  /\ Len(parts[2]) = 1

\* ---------------------------------------------------------------------------
\* C12: while the text left is longer than msgLen = S, a turn of the loop cuts at
\* the last newline whose offset is at most S when there is one (the part is the
\* text before it, the newline is dropped, the rest starts after it) and at offset
\* S otherwise; every part printed has at most S bytes; and the loop ends with the
\* remainder, of at most S bytes, printed as the last object.
NewlineOffsets(t, n) == {k \in 0..n : k < Len(t) /\ t[k + 1] = Newline}

MaxOf(S) == CHOOSE x \in S : \A y \in S : y <= x

C12_CutStep ==
  (encpc = "split" /\ Len(text) > msgLen) =>
     IF NewlineOffsets(text, msgLen) # {}
       THEN LET c == MaxOf(NewlineOffsets(text, msgLen))
            IN  /\ parts' = Append(parts, SubSeq(text, 1, c))
                /\ text' = SubSeq(text, c + 2, Len(text))
       ELSE /\ parts' = Append(parts, SubSeq(text, 1, msgLen))
            /\ text' = SubSeq(text, msgLen + 1, Len(text))

C12_CutAtLastNewline ==
  /\ [][C12_CutStep]_vars
  /\ [](\A k \in 1..Len(parts) : Len(parts[k]) <= msgLen)
  /\ [](encpc = "printed" =>
          /\ parts # <<>>
          /\ parts[Len(parts)] = text
          /\ Len(text) <= msgLen)

\* two newlines in the window: the cut was made at the second one
C12_Witness ==
  /\ encpc = "printed"
  /\ msgLen = 2
  /\ message = <<Newline, 97, Newline, 98>>
  /\ parts = <<<<Newline, 97>>, <<98>>>>

\* ---- the escape loop of writeMessage (log.go:86-110) ----
\* the characters of a formatted message, each as its UTF-8 bytes: the five that
\* the loop escapes, the letter n, and a two-byte character
EscapeChars == {<<Quote>>, <<Backslash>>, <<Newline>>, <<CarriageReturn>>, <<Tab>>,
                <<LetterN>>, <<195, 169>>}

EscapeTexts == UNION {{Concat(f) : f \in [1..k -> EscapeChars]} : k \in 0..MaxRunes}

\* utf8.RuneError, what utf8.DecodeRune gives for a byte that starts no character
RuneError == 65533

\* log.go:94: utf8.DecodeRune(messageBytes[i:]), for one-byte and two-byte
\* characters (the texts of the model hold no byte above 0xDF)
DecodeRune(bs, i) ==
  LET b0 == bs[i + 1]
  IN  IF b0 < 128
        THEN [r |-> b0, size |-> 1]
        ELSE IF /\ b0 \in 194..223
                /\ i + 2 <= Len(bs)
                /\ bs[i + 2] \in 128..191
               THEN [r |-> (b0 - 192) * 64 + (bs[i + 2] - 128), size |-> 2]
               ELSE [r |-> RuneError, size |-> 1]

\* log.go:106: buf.WriteRune(r): the UTF-8 bytes of r
WriteRune(r) ==
  IF r < 128
    THEN <<r>>
    ELSE IF r < 2048
           THEN <<192 + (r \div 64), 128 + (r % 64)>>
           ELSE <<224 + (r \div 4096), 128 + ((r \div 64) % 64), 128 + (r % 64)>>

\* mutant of EscapeRune: the backslash is written as it is
EscapeRuneRawBackslash(r) ==
  CASE r = Quote -> <<Backslash, r>>
    [] r = Newline -> <<Backslash, LetterN>>
    [] r = CarriageReturn -> <<Backslash, LetterR>>
    [] r = Tab -> <<Backslash, LetterT>>
    [] OTHER -> WriteRune(r)

\* log.go:95-107: the switch on the character
EscapeRune(r) ==
  CASE r \in {Quote, Backslash} -> <<Backslash, r>>
    [] r = Newline -> <<Backslash, LetterN>>
    [] r = CarriageReturn -> <<Backslash, LetterR>>
    [] r = Tab -> <<Backslash, LetterT>>
    [] OTHER -> WriteRune(r)

\* log.go:93-109: one turn of the loop
escapeStep ==
  /\ encpc = "escape"
  /\ ei < Len(messageBytes)
  /\ LET d == DecodeRune(messageBytes, ei)
     IN  /\ buf' = buf \o EscapeRune(d.r)
         /\ ei' = ei + d.size
  /\ UNCHANGED <<msgLen, message, text, parts, encpc, messageBytes>>
  /\ UNCHANGED <<pipeVars, singleVars, cfgVars>>

\* log.go:93 and log.go:110-112: the loop is over, the message field is closed
escapeDone ==
  /\ encpc = "escape"
  /\ ~(ei < Len(messageBytes))
  /\ encpc' = "escaped"
  /\ UNCHANGED <<msgLen, message, text, parts, messageBytes, ei, buf>>
  /\ UNCHANGED <<pipeVars, singleVars, cfgVars>>

\* writeMessage given any formatted message
InitEscape ==
  /\ PipeInit0
  /\ cap = QueueCap
  /\ SingleInit0
  /\ msgLen = MaxMsgLength
  /\ message = <<>>
  /\ text = <<>>
  /\ parts = <<>>
  /\ encpc = "escape"
  /\ messageBytes \in EscapeTexts
  /\ ei = 0
  /\ buf = <<>>
  /\ mpc = "idle"
  /\ mval = <<>>

NextEscape ==
  \/ escapeStep
  \/ escapeDone

SpecEscape == InitEscape /\ [][NextEscape]_vars

\* what a JSON parser reads from the inside of a string: \", \\, \n, \r, \t stand
\* for one character; a bare quote, a bare control character or another escape
\* is an error, shown as -1
RECURSIVE JsonUnescape(_)
JsonUnescape(s) ==
  IF s = <<>>
    THEN <<>>
    ELSE IF Head(s) = Backslash
           THEN IF Len(s) < 2
                  THEN <<-1>>
                  ELSE LET c == s[2]
                           u == CASE c = Quote -> Quote
                                  [] c = Backslash -> Backslash
                                  [] c = LetterN -> Newline
                                  [] c = LetterR -> CarriageReturn
                                  [] c = LetterT -> Tab
                                  [] OTHER -> -1
                       IN  <<u>> \o JsonUnescape(Tail(Tail(s)))
           ELSE IF Head(s) = Quote \/ Head(s) < 32
                  THEN <<-1>>
                  ELSE <<Head(s)>> \o JsonUnescape(Tail(s))

Escaped == {Quote, Backslash, Newline, CarriageReturn, Tab}

CountIn(s, S) == Cardinality({k \in 1..Len(s) : s[k] \in S})

\* ---------------------------------------------------------------------------
\* C13: when the escape loop is over, the message field holds no bare newline,
\* carriage return or tab, holds two bytes for every double quote, backslash,
\* newline, carriage return and tab of the formatted message, and JSON-unescaping
\* it gives the formatted message back, byte for byte.
C13_EscapeRoundTrip ==
  encpc = "escaped" =>
     /\ \A k \in 1..Len(buf) : buf[k] \notin {Newline, CarriageReturn, Tab}
     /\ Len(buf) = Len(messageBytes) + CountIn(messageBytes, Escaped)
     /\ JsonUnescape(buf) = messageBytes

\* a backslash followed by the letter n, then a newline
C13_Witness ==
  /\ encpc = "escaped"
  /\ messageBytes = <<Backslash, LetterN, Newline>>
  /\ buf = <<Backslash, Backslash, LetterN, Backslash, LetterN>>

\* one emitter whose calls may come with or without a caller frame, and the worker
NextSrc ==
  \/ \E lvl \in EmitLevels : logFilter(OneProducer, lvl)
  \/ \E frame \in Frames : logGet(OneProducer, frame)
  \/ logSend(OneProducer)
  \/ Work

SpecSrc == InitLoad /\ [][NextSrc]_vars

\* ---------------------------------------------------------------------------
\* C14: every line written carries src_file and src_line together or not at all,
\* carries them only when runtime.Caller gave a frame for the call, and carries
\* neither when the capture failed.
C14_SrcFieldsOnlyOnCapture ==
  \A i \in 1..Len(wlog) :
     /\ wlog[i].fields \in {{}, {"src_file", "src_line"}}
     /\ wlog[i].fields # {} => cframe[wlog[i].call].ok
     /\ ~cframe[wlog[i].call].ok => wlog[i].fields = {}

\* C14, the pairing alone: src_file and src_line are written together or not at all
C14_SrcFieldsPaired ==
  \A i \in 1..Len(wlog) : wlog[i].fields \in {{}, {"src_file", "src_line"}}

\* one emitter, the worker and assignments to logger.Level
NextRecheck ==
  \/ \E lvl \in EmitLevels : logFilter(OneProducer, lvl)
  \/ logGet(OneProducer, CallerFrame)
  \/ logSend(OneProducer)
  \/ Work
  \/ \E lvl \in Levels : SetLevel(lvl)

SpecRecheck == Init /\ [][NextRecheck]_vars

\* ---------------------------------------------------------------------------
\* C15: when the worker handles a received record it compares the record's level
\* with logger.Level as it is then: below it, nothing is written to stdout or to a
\* writer and the record goes on to be put back in msgPool; at or above it, the
\* record's line is written.  A handled record that was not written to stdout was
\* written nowhere, and is back in the pool or taken again.
C15_CheckStep ==
  (wpc = "write" /\ wpc' # "write") =>
     IF rec[wmsg].Level < Level
       THEN /\ wlog' = wlog
            /\ wpc' = "release"
       ELSE /\ Len(wlog') = Len(wlog) + 1
            /\ wlog'[Len(wlog')].dest = Stdout
            /\ wlog'[Len(wlog')].call = rec[wmsg].format

C15_ReleaseStep ==
  (wpc = "release" /\ wpc' # "release") =>
     /\ wmsg \in msgPool'
     /\ rec[wmsg].format \in handled'
     /\ wlog' = wlog

C15_WorkerRechecksLevel ==
  /\ [][C15_CheckStep /\ C15_ReleaseStep]_vars
  /\ [](\A c \in handled : c \notin Written => WritesOfCall(c) = {})

\* a record that passed the filter at submission and was discarded by the worker
\* after logger.Level was raised, and another one that was written
C15_Witness ==
  /\ Written # {}
  /\ \E c \in handled :
        /\ c \notin Written
        /\ clevel[c] = WarningLevel
        /\ Level = ErrorLevel
        /\ \E m \in msgPool : rec[m].format = c

\* ---------------------------------------------------------------------------
\* C16: the worker leaves its loop only when the channel is closed and empty,
\* having handled the queued records in queue order; and once Stop or StopSync has
\* closed the channel the worker does reach that point, whether or not a caller
\* waits for it.
C16_ExitOnlyWhenDrained ==
  wpc = "done" =>
     /\ closed
     /\ output = <<>>
     /\ wmsg = 0
     /\ \A c \in Enqueued : c \in handled

C16_QueueOrderStep ==
  (output # <<>> /\ Len(deq') = Len(deq) + 1) =>
     /\ deq'[Len(deq')] = rec[Head(output)].format
     /\ output' = Tail(output)

C16_CloseThenDrain ==
  /\ []C16_ExitOnlyWhenDrained
  /\ [][C16_QueueOrderStep]_vars
  /\ closed ~> wpc = "done"

\* C16 for the runs in which no goroutine panics
C16_CloseThenDrainUnlessPanic ==
  /\ []C16_ExitOnlyWhenDrained
  /\ [][C16_QueueOrderStep]_vars
  /\ closed ~> (wpc = "done" \/ ~Running)

\* ---------------------------------------------------------------------------
\* C17: every LogMsg made so far is in exactly one place: resting in msgPool, held
\* by one producer between Get and the send or the drop, at one position of the
\* queue, or held by the worker; a Put is always of a record that is not in the
\* pool, and a Get takes the record out of the pool.
Holders(m) ==
  Cardinality({p \in Producers : pmsg[p] = m})
  + Cardinality({i \in 1..Len(output) : output[i] = m})
  + (IF wmsg = m THEN 1 ELSE 0)
  + (IF m \in msgPool THEN 1 ELSE 0)

C17_SingleOwner ==
  /\ \A m \in 1..allocated : Holders(m) = 1
  /\ \A m \in Msgs : m > allocated => Holders(m) = 0
  /\ msgPool \subseteq 1..allocated

\* one record has served two calls: it went from the pool to a producer, the queue,
\* the worker and the pool, and is with the worker again
C17_Witness ==
  /\ allocated = 1
  /\ Cardinality(handled) = 1
  /\ wmsg = 1
  /\ rec[1].format \notin handled

\* one emitter whose calls come with or without a caller frame, the worker,
\* assignments to logger.Level, and one goroutine that calls Stop or StopSync
OneStopper == CHOOSE x \in Stoppers : TRUE

NextPool ==
  \/ \E lvl \in EmitLevels : logFilter(OneProducer, lvl)
  \/ \E frame \in Frames : logGet(OneProducer, frame)
  \/ logSend(OneProducer)
  \/ Work
  \/ \E lvl \in Levels : SetLevel(lvl)
  \/ Stop(OneStopper)
  \/ StopSyncClose(OneStopper)
  \/ StopSyncWait(OneStopper)

SpecPool == Init /\ [][NextPool]_vars

\* ---------------------------------------------------------------------------
\* C18: the pool cannot be seen in the output.  The record of a call, as the queue
\* holds it and as the worker reads it, is what a new zeroed LogMsg filled by that
\* call would be: level, format, values, file and line all come from the call that
\* enqueued it.  So the worker receives the calls in the order they were enqueued,
\* and every line written is the line of a new record filled by its call.
FreshMsg(c) == FilledMsg(ZeroMsg, clevel[c], c, cframe[c])

C18_PoolTransparent ==
  /\ Len(sent) = Len(deq) + Len(output)
  /\ deq = SubSeq(sent, 1, Len(deq))
  /\ \A i \in 1..Len(output) : rec[output[i]] = FreshMsg(sent[Len(deq) + i])
  /\ wmsg # 0 => rec[wmsg] = FreshMsg(sent[Len(deq)])
  /\ \A p \in Producers : pmsg[p] # 0 => rec[pmsg[p]] = FreshMsg(pcall[p])
  /\ \A i \in 1..Len(wlog) : wlog[i].line = Rendered(FreshMsg(wlog[i].call))
  /\ \A i, j \in 1..Len(wlog) : i < j => DeqPos(wlog[i].call) <= DeqPos(wlog[j].call)

\* one LogMsg has served two calls, the first with a caller frame and the second
\* without, and both lines were written
C18_Witness ==
  /\ allocated = 1
  /\ Len(wlog) = 2
  /\ wlog[1].call = 1
  /\ wlog[2].call = 2
  /\ cframe[1].ok
  /\ ~cframe[2].ok
  /\ wlog[1].line # wlog[2].line

\* one emitter, the worker, and a goroutine that calls AddWriter and assigns
\* logger.Level while the worker runs
NextRace ==
  \/ \E lvl \in EmitLevels : logFilter(OneProducer, lvl)
  \/ logGet(OneProducer, CallerFrame)
  \/ logSend(OneProducer)
  \/ Work
  \/ \E bad \in BOOLEAN : AddWriterLoad(bad)
  \/ AddWriterStore
  \/ \E lvl \in Levels : SetLevelLoad(lvl)
  \/ SetLevelStore

SpecRace == Init /\ [][NextRace]_vars

\* ---------------------------------------------------------------------------
\* C19: a store into logger.writers by AddWriter, or into logger.Level, is never
\* pending at the moment the worker's next step reads that field: the accesses are
\* ordered by some synchronisation; and the slice the worker ranges over is the
\* list of writers as it was before an append or as it is after it.
WorkerReadsWriters == wpc = "range"

WorkerReadsLevel == wpc = "write"

C19_NoUnorderedAccess ==
  /\ ~(mpc = "writers" /\ WorkerReadsWriters)
  /\ ~(mpc = "level" /\ WorkerReadsLevel)
  /\ \A i \in 1..Len(wsnap) : wsnap[i] # Garbage

\* C19, the list alone: the worker never ranges over a torn slice
C19_WholeListSeen == \A i \in 1..Len(wsnap) : wsnap[i] # Garbage

\* ---------------------------------------------------------------------------
\* C20: an emit call (Debug/Info/Warning/Error, or LogWriter.Write, which calls
\* Logger.log) returns to its caller in every state of the logger, also after Stop
\* or StopSync has closed the channel: no call is left inside Logger.log by a
\* panic of its send.
C20_EmitReturnsNormally ==
  \A p \in Producers : ~(ppc[p] = "send" /\ panic = SendOnClosed)

\* ---------------------------------------------------------------------------
\* C21: a LogMsg resting in msgPool holds no values of a caller: whichever path
\* put it there, the worker after handling it or Logger.log when the queue was
\* full, its values are nil.
C21_PooledValuesCleared == \A m \in msgPool : rec[m].values = NilValues

\* C21 for the worker's path alone: a record the worker has put back and that no
\* dropped call has used since holds no values
C21_WorkerPathCleared ==
  \A m \in msgPool : rec[m].format \in handled => rec[m].values = NilValues
====
